---------------------------- MODULE Spec2Model ----------------------------
(***************************************************************************)
(* OAuth 1.0 client (src/lib.rs): percent-encoding, canonical query,       *)
(* signature base string and signing key, header/body rendering, and the   *)
(* get/post/send request path.                                             *)
(*                                                                         *)
(* A Rust str is modelled as the sequence of its UTF-8 bytes (0..255), so  *)
(* that String's Ord (byte-wise lexicographic) and the byte-wise percent   *)
(* encoder are the ones of the code.                                       *)
(***************************************************************************)
EXTENDS Integers, Sequences, FiniteSets, TLC

(***************************************************************************)
(* Bounds of the model.                                                    *)
(***************************************************************************)
\* longest input string (in characters) handed to encode on its own
MaxLen == 2
\* largest caller-supplied parameter map
MaxParams == 2
\* HashMap iteration orders tried per map: seeds 0..MaxSeed
MaxSeed == 1

(***************************************************************************)
(* String literals of the source, as UTF-8 bytes.                          *)
(***************************************************************************)
Empty == << >>
S_amp == <<38>>                                              \* "&"
S_eq == <<61>>                                               \* "="
S_quote == <<34>>                                            \* "\""
S_qmark == <<63>>                                            \* "?"
S_comma_sp == <<44,32>>                                      \* ", "
S_OAuth_sp == <<79,65,117,116,104,32>>                       \* "OAuth "
S_oauth_ == <<111,97,117,116,104,95>>                        \* "oauth_"
S_GET == <<71,69,84>>                                        \* "GET"
S_POST == <<80,79,83,84>>                                    \* "POST"
S_HMAC_SHA1 == <<72,77,65,67,45,83,72,65,49>>                \* "HMAC-SHA1"
S_1_0 == <<49,46,48>>                                        \* "1.0"
S_form_urlencoded == <<97,112,112,108,105,99,97,116,105,111,110,47,120,45,119,119,119,45,102,111,114,109,45,117,114,108,101,110,99,111,100,101,100>>
K_consumer_key == <<111,97,117,116,104,95,99,111,110,115,117,109,101,114,95,107,101,121>>
K_nonce == <<111,97,117,116,104,95,110,111,110,99,101>>
K_signature_method == <<111,97,117,116,104,95,115,105,103,110,97,116,117,114,101,95,109,101,116,104,111,100>>
K_timestamp == <<111,97,117,116,104,95,116,105,109,101,115,116,97,109,112>>
K_version == <<111,97,117,116,104,95,118,101,114,115,105,111,110>>
K_token == <<111,97,117,116,104,95,116,111,107,101,110>>
K_signature == <<111,97,117,116,104,95,115,105,103,110,97,116,117,114,101>>

(***************************************************************************)
(* Strings: String's Ord, Vec<String>::sort and [String]::join.            *)
(***************************************************************************)
\* first index at which a and b differ, or Min(Len)+1 when one is a prefix
RECURSIVE FirstDiff(_, _, _)
FirstDiff(a, b, i) ==
    IF i > Len(a) \/ i > Len(b) THEN i
    ELSE IF a[i] # b[i] THEN i
    ELSE FirstDiff(a, b, i + 1)

\* a < b in String's Ord: byte-wise lexicographic, a proper prefix is smaller
StrLess(a, b) ==
    LET i == FirstDiff(a, b, 1) IN
    IF i > Len(a) THEN i <= Len(b)
    ELSE IF i > Len(b) THEN FALSE
    ELSE a[i] < b[i]

StrLeq(a, b) == ~StrLess(b, a)

\* str::starts_with
starts_with(s, p) == Len(s) >= Len(p) /\ SubSeq(s, 1, Len(p)) = p

\* insert x into the sorted sequence v, after the elements equal to it
RECURSIVE SortedInsert(_, _)
SortedInsert(v, x) ==
    IF v = << >> THEN <<x>>
    ELSE IF StrLess(x, Head(v)) THEN <<x>> \o v
    ELSE <<Head(v)>> \o SortedInsert(Tail(v), x)

\* Vec<String>::sort: a stable sort by String's Ord
RECURSIVE sort(_)
sort(v) ==
    IF v = << >> THEN << >>
    ELSE SortedInsert(sort(SubSeq(v, 1, Len(v) - 1)), v[Len(v)])

\* [String]::join(sep)
RECURSIVE join(_, _)
join(v, sep) ==
    IF v = << >> THEN Empty
    ELSE IF Len(v) = 1 THEN v[1]
    ELSE v[1] \o sep \o join(Tail(v), sep)

(***************************************************************************)
(* encode: percent_encoding::percent_encode over the AsciiSet URL.         *)
(***************************************************************************)
AsciiAlphanumeric == (48..57) \cup (65..90) \cup (97..122)

\* percent_encoding::NON_ALPHANUMERIC: every ASCII byte that is no letter or digit
NON_ALPHANUMERIC == (0..127) \ AsciiAlphanumeric

\* a set that also lets "%" through
URL_keeping_percent == NON_ALPHANUMERIC \ {45, 46, 95, 126, 37}

\* const URL = NON_ALPHANUMERIC.remove(b'-').remove(b'.').remove(b'_').remove(b'~')
URL == NON_ALPHANUMERIC \ {45, 46, 95, 126}

\* AsciiSet::should_percent_encode: a non-ASCII byte always, an ASCII byte in the set
should_percent_encode(b) == b >= 128 \/ b \in URL

\* one upper-case hexadecimal digit, as its ASCII byte
HexDigit(n) == IF n < 10 THEN 48 + n ELSE 55 + n

\* the three bytes %XX of byte b
PercentByte(b) == <<37, HexDigit(b \div 16), HexDigit(b % 16)>>

EncodeByte(b) == IF should_percent_encode(b) THEN PercentByte(b) ELSE <<b>>

\* the encoded bytes s[lo..hi], one after the other (halving keeps the
\* evaluation shallow on long strings)
RECURSIVE EncodeRange(_, _, _)
EncodeRange(s, lo, hi) ==
    IF lo > hi THEN Empty
    ELSE IF lo = hi THEN EncodeByte(s[lo])
    ELSE LET mid == (lo + hi) \div 2
         IN  EncodeRange(s, lo, mid) \o EncodeRange(s, mid + 1, hi)

encode(s) == EncodeRange(s, 1, Len(s))


(***************************************************************************)
(* ParamList = HashMap<str, str>: a function from keys to values.  The     *)
(* iteration order of a HashMap is fixed by its hasher's random keys       *)
(* (RandomState), not by its contents' order: iter(param, seed) is the     *)
(* order under hasher seed `seed`.                                         *)
(***************************************************************************)
RECURSIVE KeysAscending(_)
KeysAscending(S) ==
    IF S = {} THEN << >>
    ELSE LET x == CHOOSE y \in S : TRUE
         IN  SortedInsert(KeysAscending(S \ {x}), x)

\* HashMap::iter: the keys in the order the hasher seed fixes (seed 0: ascending,
\* seed 1: descending, then these rotated by seed \div 2 places)
iter(param, seed) ==
    LET base == KeysAscending(DOMAIN param)
        n == Len(base)
    IN  [i \in 1..n |->
            LET r == ((i - 1 + seed \div 2) % n) + 1
            IN  IF seed % 2 = 1 THEN base[n + 1 - r] ELSE base[r]]

EmptyParam == [k \in {} |-> Empty]

\* HashMap::insert: the last write of a key wins
insert_param(param, key, value) ==
    [k \in (DOMAIN param) \cup {key} |-> IF k = key THEN value ELSE param[k]]

\* the pairs put in the order of their raw keys
join_query_pairs_by_key(param, seed) ==
    LET it == KeysAscending(DOMAIN param)
    IN  [i \in 1..Len(it) |-> encode(it[i]) \o S_eq \o encode(param[it[i]])]

\* the `pairs` Vec of join_query, sorted
join_query_pairs(param, seed) ==
    LET it == iter(param, seed)
    IN  sort([i \in 1..Len(it) |-> encode(it[i]) \o S_eq \o encode(param[it[i]])])

join_query(param, seed) == join(join_query_pairs(param, seed), S_amp)

\* format!("{}=\"{}\"", k, encode(&v))
header_pair(k, v) == k \o S_eq \o S_quote \o encode(v) \o S_quote

\* the filter of header: k.starts_with("oauth_")
header_filter(k) == starts_with(k, S_oauth_)

\* the entries left in the map's iteration order
header_pairs_unsorted(param, seed) ==
    LET it == SelectSeq(iter(param, seed), header_filter)
    IN  [i \in 1..Len(it) |-> header_pair(it[i], param[it[i]])]

\* the `pairs` Vec of header, sorted
header_pairs(param, seed) ==
    LET it == SelectSeq(iter(param, seed), header_filter)
    IN  sort([i \in 1..Len(it) |-> header_pair(it[i], param[it[i]])])

\* format!("OAuth {}", pairs.join(", "))
header_of(pairs) == S_OAuth_sp \o join(pairs, S_comma_sp)

header(param, seed) == header_of(header_pairs(param, seed))

\* format!("{}={}", k, encode(&v))
body_pair(k, v) == k \o S_eq \o encode(v)

\* a body that filters nothing out
body_filter_none(k) == TRUE

\* the filter of body: !k.starts_with("oauth_")
body_filter(k) == ~starts_with(k, S_oauth_)

\* the entries left in the map's iteration order
body_pairs_unsorted(param, seed) ==
    LET it == SelectSeq(iter(param, seed), body_filter)
    IN  [i \in 1..Len(it) |-> body_pair(it[i], param[it[i]])]

\* the `pairs` Vec of body, sorted
body_pairs(param, seed) ==
    LET it == SelectSeq(iter(param, seed), body_filter)
    IN  sort([i \in 1..Len(it) |-> body_pair(it[i], param[it[i]])])

\* pairs.join("&")
body_of(pairs) == join(pairs, S_amp)

body(param, seed) == body_of(body_pairs(param, seed))

(***************************************************************************)
(* signature.  ring's HMAC-SHA1 is a deterministic keyed digest of the     *)
(* message (20 bytes); it is abstracted by a 16-bit keyed checksum, which  *)
(* keeps what the callers rely on: the digest is a function of the key's   *)
(* and the message's bytes.  base64::encode is the standard alphabet with  *)
(* padding.                                                                *)
(***************************************************************************)
\* position-weighted checksum of the bytes s[lo..hi]
RECURSIVE Mix(_, _, _)
Mix(s, lo, hi) ==
    IF lo > hi THEN 0
    ELSE IF lo = hi THEN (lo * (s[lo] + 1)) % 65536
    ELSE LET mid == (lo + hi) \div 2
         IN  (Mix(s, lo, mid) + Mix(s, mid + 1, hi)) % 65536

hmac_sign(key, msg) ==
    LET h == (Mix(key, 1, Len(key)) * 31 + Mix(msg, 1, Len(msg)) + Len(key)) % 65536
    IN  <<h \div 256, h % 256>>

B64Char(n) ==
    IF n < 26 THEN 65 + n
    ELSE IF n < 52 THEN 97 + (n - 26)
    ELSE IF n < 62 THEN 48 + (n - 52)
    ELSE IF n = 62 THEN 43 ELSE 47

RECURSIVE base64_encode(_)
base64_encode(b) ==
    IF b = << >> THEN Empty
    ELSE IF Len(b) = 1 THEN
        <<B64Char(b[1] \div 4), B64Char((b[1] % 4) * 16), 61, 61>>
    ELSE IF Len(b) = 2 THEN
        <<B64Char(b[1] \div 4), B64Char((b[1] % 4) * 16 + b[2] \div 16),
          B64Char((b[2] % 16) * 4), 61>>
    ELSE
        <<B64Char(b[1] \div 4), B64Char((b[1] % 4) * 16 + b[2] \div 16),
          B64Char((b[2] % 16) * 4 + b[3] \div 64), B64Char(b[3] % 64)>>
        \o base64_encode(SubSeq(b, 4, Len(b)))

\* Option<T>
None(dflt) == [some |-> FALSE, val |-> dflt]
Some(x) == [some |-> TRUE, val |-> x]

\* Option::unwrap_or
unwrap_or(opt, dflt) == IF opt.some THEN opt.val ELSE dflt

\* let base = format!("{}&{}&{}", encode(method), encode(uri), encode(query))
signature_base(method, uri, query) ==
    encode(method) \o S_amp \o encode(uri) \o S_amp \o encode(query)

\* a key that leaves the token's secret out
signature_key_consumer_only(consumer_secret, token_secret) ==
    encode(consumer_secret) \o S_amp

\* let key = format!("{}&{}", encode(consumer_secret), encode(token_secret.unwrap_or("")))
signature_key(consumer_secret, token_secret) ==
    encode(consumer_secret) \o S_amp \o encode(unwrap_or(token_secret, Empty))

\* signature's locals base and key, and the string it returns
signature(method, uri, query, consumer_secret, token_secret) ==
    LET base == signature_base(method, uri, query)
        key == signature_key(consumer_secret, token_secret)
    IN  [base |-> base, key |-> key, sign |-> base64_encode(hmac_sign(key, base))]

(***************************************************************************)
(* get_header.  The clock's timestamp, the generator's nonce and the       *)
(* hasher seeds of the two maps are inputs.  The result keeps, beside the  *)
(* returned (header, body), the locals the claims speak of.                *)
(***************************************************************************)
\* for (k, v) in ps.iter() { insert_param(&mut param, k, v) }
RECURSIVE InsertAll(_, _, _)
InsertAll(param, ps, order) ==
    IF order = << >> THEN param
    ELSE InsertAll(insert_param(param, Head(order), ps[Head(order)]), ps, Tail(order))

NoToken == None([key |-> Empty, secret |-> Empty])
NoParams == None(EmptyParam)

get_header(method, uri, consumer, token, other_param, timestamp, nonce, seed, ps_seed) ==
    LET p1 == insert_param(EmptyParam, K_consumer_key, consumer.key)
        p2 == insert_param(p1, K_nonce, nonce)
        p3 == insert_param(p2, K_signature_method, S_HMAC_SHA1)
        p4 == insert_param(p3, K_timestamp, timestamp)
        p5 == insert_param(p4, K_version, S_1_0)
        p6 == IF token.some THEN insert_param(p5, K_token, token.val.key) ELSE p5
        p7 == IF other_param.some
              THEN InsertAll(p6, other_param.val, iter(other_param.val, ps_seed))
              ELSE p6
        query == join_query(p7, seed)
        token_secret == IF token.some THEN Some(token.val.secret) ELSE None(Empty)
        sig == signature(method, uri, query, consumer.secret, token_secret)
        param == insert_param(p7, K_signature, sig.sign)
        hpairs == header_pairs(param, seed)
        bpairs == body_pairs(param, seed)
    IN  [signed |-> p7,
         query |-> query,
         base |-> sig.base,
         key |-> sig.key,
         sign |-> sig.sign,
         param |-> param,
         header_pairs |-> hpairs,
         body_pairs |-> bpairs,
         header |-> header_of(hpairs),
         body |-> body_of(bpairs)]

authorization_header(method, uri, consumer, token, other_param, timestamp, nonce, seed, ps_seed) ==
    get_header(method, uri, consumer, token, other_param, timestamp, nonce, seed, ps_seed)

(***************************************************************************)
(* get, post and send: the request handed to the transport, and what send  *)
(* makes of the transport's answer.                                        *)
(***************************************************************************)
\* reqwest::StatusCode::OK
StatusCode_OK == 200

\* a "?" also before an empty body
get_req_uri_always(uri, body_str) == uri \o S_qmark \o body_str

\* let req_uri = if !body.is_empty() { format!("{}?{}", uri, body) } else { uri.to_string() }
get_req_uri(uri, body_str) ==
    IF body_str # Empty THEN uri \o S_qmark \o body_str ELSE uri

\* CLIENT.get(&req_uri).header(AUTHORIZATION, header)
get_request(uri, h) ==
    [method |-> S_GET,
     uri |-> get_req_uri(uri, h.body),
     body |-> None(Empty),
     authorization |-> Some(h.header),
     content_type |-> None(Empty)]

\* CLIENT.post(uri).body(body).header(AUTHORIZATION, header).header(CONTENT_TYPE, ...)
post_request(uri, h) ==
    [method |-> S_POST,
     uri |-> uri,
     body |-> Some(h.body),
     authorization |-> Some(h.header),
     content_type |-> Some(S_form_urlencoded)]

\* Result<Vec<u8>>
Pending == [kind |-> "Pending", code |-> 0, bytes |-> Empty]
Ok(bytes) == [kind |-> "Ok", code |-> 0, bytes |-> bytes]
ErrHttpStatus(code) == [kind |-> "HttpStatusError", code |-> code, bytes |-> Empty]
ErrTransport == [kind |-> "TransportError", code |-> 0, bytes |-> Empty]

\* any 2xx status taken for a success
send_status_is_error_non_2xx(status) == status < 200 \/ status >= 300

\* if response.status() != StatusCode::OK
send_status_is_error(status) == status # StatusCode_OK

\* bail!(HttpStatusError(response.status().into())): the status as u16
send_status_error(status) == ErrHttpStatus(status % 65536)

(***************************************************************************)
(* Inputs.                                                                 *)
(***************************************************************************)
\* characters of the input strings: unreserved ones (a Z 0 4 1 - . _ ~),
\* reserved ones (= & : / % space) and a two-byte character
Chars ==
    { <<97>>, <<90>>, <<48>>, <<52>>, <<49>>, <<45>>, <<46>>, <<95>>, <<126>>,
      <<61>>, <<38>>, <<58>>, <<47>>, <<37>>, <<32>>, <<195,169>> }

RECURSIVE StringsOfLen(_)
StringsOfLen(n) ==
    IF n = 0 THEN {Empty}
    ELSE {c \o s : c \in Chars, s \in StringsOfLen(n - 1)}

\* the strings of tests::test_encode: "GET" and the request-token URI
TestStrings ==
    { S_GET,
      <<104,116,116,112,58,47,47,111,97,117,116,104,98,105,110,46,99,111,109,47,
        118,49,47,114,101,113,117,101,115,116,45,116,111,107,101,110>> }

EncodeInputs ==
    UNION {StringsOfLen(n) : n \in 0..MaxLen} \cup {<<b>> : b \in 0..127} \cup TestStrings

\* caller-supplied keys: "a", "a-", "a &=", "oauth_token", "oauth_token-x",
\* "oauth_signature"
Keys ==
    { <<97>>, <<97,45>>, <<97,32,38,61>>, K_token,
      <<111,97,117,116,104,95,116,111,107,101,110,45,120>>, K_signature }

\* the value a caller supplies for each key: "y z" for "a-" and "oauth_token-x",
\* "x" for the others
ValueOf(k) ==
    IF k \in {<<97,45>>, <<111,97,117,116,104,95,116,111,107,101,110,45,120>>}
    THEN <<121,32,122>>
    ELSE <<120>>

\* the map of tests::query: {aaa: AAA, bbbb: BBBB}
TestParam ==
    (<<97,97,97>> :> <<65,65,65>>) @@ (<<98,98,98,98>> :> <<66,66,66,66>>)

ParamLists ==
    {[k \in S |-> ValueOf(k)] : S \in {T \in SUBSET Keys : Cardinality(T) <= MaxParams}}
    \cup {TestParam}

Methods == {S_GET, S_POST}

\* "http://h/p"
URIs == { <<104,116,116,112,58,47,47,104,47,112>> }

\* Token::new("key", "s&c")
Consumers == { [key |-> <<107,101,121>>, secret |-> <<115,38,99>>] }

\* None, or Token::new("tk", "t s")
Tokens == { NoToken, Some([key |-> <<116,107>>, secret |-> <<116,32,115>>]) }

OtherParams == {NoParams} \cup {Some(ps) : ps \in ParamLists}

\* 32 alphanumeric characters
Nonces ==
    { <<115,54,72,71,108,51,71,104,109,115,68,115,109,112,103,101,76,111,54,108,
        71,116,75,115,55,114,81,69,122,122,115,65>>,
      <<90,113,48,71,104,109,115,68,115,109,112,103,101,76,111,54,108,71,116,75,
        115,55,114,81,69,122,122,115,65,57,120,89>> }

\* whole seconds since the epoch, in decimal: "1471445561", "1471445562"
Timestamps ==
    { <<49,52,55,49,52,52,53,53,54,49>>, <<49,52,55,49,52,52,53,53,54,50>> }

Seeds == 0..MaxSeed

\* statuses the server may answer with, and response bodies
Statuses == {200, 201, 204, 401, 500}
Payloads == { Empty, <<111,107>> }

(***************************************************************************)
(* State.                                                                  *)
(*   pc   where the caller is: "idle", "awaiting_response" (in send, at    *)
(*        builder.send().await), "awaiting_bytes" (in send, at             *)
(*        response.bytes().await), "returned"                              *)
(*   op   the function called                                              *)
(*   arg  its arguments                                                    *)
(*   ret  what it computed and returned                                    *)
(*   req  the request handed to the transport                              *)
(*   rsp  what the transport answered                                      *)
(***************************************************************************)
VARIABLES pc, op, arg, ret, req, rsp

vars == <<pc, op, arg, ret, req, rsp>>

NoArg == [none |-> TRUE]
NoRequest ==
    [method |-> Empty, uri |-> Empty, body |-> None(Empty),
     authorization |-> None(Empty), content_type |-> None(Empty)]
NoResponse == [kind |-> "none", status |-> 0, payload |-> Empty]

Init ==
    /\ pc = "idle"
    /\ op = "none"
    /\ arg = NoArg
    /\ ret = NoArg
    /\ req = NoRequest
    /\ rsp = NoResponse

CallEncode(s) ==
    /\ pc = "idle"
    /\ pc' = "returned"
    /\ op' = "encode"
    /\ arg' = [s |-> s]
    /\ ret' = [s |-> encode(s)]
    /\ UNCHANGED <<req, rsp>>

CallJoinQuery(param, seed) ==
    /\ pc = "idle"
    /\ pc' = "returned"
    /\ op' = "join_query"
    /\ arg' = [param |-> param, seed |-> seed]
    /\ ret' = [pairs |-> join_query_pairs(param, seed), s |-> join_query(param, seed)]
    /\ UNCHANGED <<req, rsp>>

CallHeader(param, seed) ==
    /\ pc = "idle"
    /\ pc' = "returned"
    /\ op' = "header"
    /\ arg' = [param |-> param, seed |-> seed]
    /\ ret' = [pairs |-> header_pairs(param, seed), s |-> header(param, seed)]
    /\ UNCHANGED <<req, rsp>>

CallBody(param, seed) ==
    /\ pc = "idle"
    /\ pc' = "returned"
    /\ op' = "body"
    /\ arg' = [param |-> param, seed |-> seed]
    /\ ret' = [pairs |-> body_pairs(param, seed), s |-> body(param, seed)]
    /\ UNCHANGED <<req, rsp>>

\* the arguments of a call of get_header, with what the run drew from the clock,
\* the random generator and the hashers
CallArgs(method, uri, consumer, token, other_param, timestamp, nonce, seed, ps_seed) ==
    [method |-> method, uri |-> uri, consumer |-> consumer, token |-> token,
     other_param |-> other_param, timestamp |-> timestamp, nonce |-> nonce,
     seed |-> seed, ps_seed |-> ps_seed]

CallAuthorizationHeader(method, uri, consumer, token, other_param, timestamp, nonce, seed, ps_seed) ==
    /\ pc = "idle"
    /\ pc' = "returned"
    /\ op' = "authorization_header"
    /\ arg' = CallArgs(method, uri, consumer, token, other_param, timestamp, nonce,
                        seed, ps_seed)
    /\ ret' = [h |-> authorization_header(method, uri, consumer, token, other_param,
                                          timestamp, nonce, seed, ps_seed),
               result |-> Pending]
    /\ UNCHANGED <<req, rsp>>

\* get, up to the first await of send
CallGet(uri, consumer, token, other_param, timestamp, nonce, seed, ps_seed) ==
    /\ pc = "idle"
    /\ LET h == get_header(S_GET, uri, consumer, token, other_param,
                           timestamp, nonce, seed, ps_seed)
       IN  /\ ret' = [h |-> h, result |-> Pending]
           /\ req' = get_request(uri, h)
    /\ pc' = "awaiting_response"
    /\ op' = "get"
    /\ arg' = CallArgs(S_GET, uri, consumer, token, other_param, timestamp, nonce,
                        seed, ps_seed)
    /\ UNCHANGED rsp

\* post, up to the first await of send
CallPost(uri, consumer, token, other_param, timestamp, nonce, seed, ps_seed) ==
    /\ pc = "idle"
    /\ LET h == get_header(S_POST, uri, consumer, token, other_param,
                           timestamp, nonce, seed, ps_seed)
       IN  /\ ret' = [h |-> h, result |-> Pending]
           /\ req' = post_request(uri, h)
    /\ pc' = "awaiting_response"
    /\ op' = "post"
    /\ arg' = CallArgs(S_POST, uri, consumer, token, other_param, timestamp, nonce,
                        seed, ps_seed)
    /\ UNCHANGED rsp

\* builder.send().await? fails: no status was obtained
SendTransportError ==
    /\ pc = "awaiting_response"
    /\ rsp' = [kind |-> "error", status |-> 0, payload |-> Empty]
    /\ ret' = [ret EXCEPT !.result = ErrTransport]
    /\ pc' = "returned"
    /\ UNCHANGED <<op, arg, req>>

\* builder.send().await? yields a response; its status is tested
SendResponse(status, payload) ==
    /\ pc = "awaiting_response"
    /\ rsp' = [kind |-> "response", status |-> status, payload |-> payload]
    /\ IF send_status_is_error(status)
       THEN /\ ret' = [ret EXCEPT !.result = send_status_error(status)]
            /\ pc' = "returned"
       ELSE /\ ret' = ret
            /\ pc' = "awaiting_bytes"
    /\ UNCHANGED <<op, arg, req>>

\* response.bytes().await? yields the body
SendBytes ==
    /\ pc = "awaiting_bytes"
    /\ ret' = [ret EXCEPT !.result = Ok(rsp.payload)]
    /\ pc' = "returned"
    /\ UNCHANGED <<op, arg, req, rsp>>

\* response.bytes().await? fails while the body is read
SendBytesError ==
    /\ pc = "awaiting_bytes"
    /\ rsp' = [rsp EXCEPT !.kind = "body_error"]
    /\ ret' = [ret EXCEPT !.result = ErrTransport]
    /\ pc' = "returned"
    /\ UNCHANGED <<op, arg, req>>

\* the caller takes the result; nothing is carried to the next call
Return ==
    /\ pc = "returned"
    /\ pc' = "idle"
    /\ op' = "none"
    /\ arg' = NoArg
    /\ ret' = NoArg
    /\ req' = NoRequest
    /\ rsp' = NoResponse

(***************************************************************************)
(* The operations, each with its inputs drawn from the sets above.         *)
(***************************************************************************)
Encode ==
    /\ pc = "idle"
    /\ \E s \in EncodeInputs : CallEncode(s)

JoinQuery ==
    /\ pc = "idle"
    /\ \E param \in ParamLists, seed \in Seeds : CallJoinQuery(param, seed)

Header ==
    /\ pc = "idle"
    /\ \E param \in ParamLists, seed \in Seeds : CallHeader(param, seed)

Body ==
    /\ pc = "idle"
    /\ \E param \in ParamLists, seed \in Seeds : CallBody(param, seed)

AuthorizationHeader ==
    /\ pc = "idle"
    /\ \E method \in Methods, uri \in URIs, consumer \in Consumers, token \in Tokens,
          other_param \in OtherParams, timestamp \in Timestamps, nonce \in Nonces,
          seed \in Seeds, ps_seed \in Seeds :
            CallAuthorizationHeader(method, uri, consumer, token, other_param,
                                    timestamp, nonce, seed, ps_seed)

Get ==
    /\ pc = "idle"
    /\ \E uri \in URIs, consumer \in Consumers, token \in Tokens,
          other_param \in OtherParams, timestamp \in Timestamps, nonce \in Nonces,
          seed \in Seeds, ps_seed \in Seeds :
            CallGet(uri, consumer, token, other_param, timestamp, nonce, seed, ps_seed)

Post ==
    /\ pc = "idle"
    /\ \E uri \in URIs, consumer \in Consumers, token \in Tokens,
          other_param \in OtherParams, timestamp \in Timestamps, nonce \in Nonces,
          seed \in Seeds, ps_seed \in Seeds :
            CallPost(uri, consumer, token, other_param, timestamp, nonce, seed, ps_seed)

Response ==
    /\ pc = "awaiting_response"
    /\ \E status \in Statuses, payload \in Payloads : SendResponse(status, payload)

NextPure == Encode \/ JoinQuery \/ Header \/ Body \/ Return

NextSign == AuthorizationHeader \/ Return

NextBuild == Encode \/ JoinQuery \/ Header \/ Body \/ AuthorizationHeader \/ Return

NextHttp ==
    Get \/ Post \/ SendTransportError \/ Response \/ SendBytes \/ SendBytesError \/ Return

Next ==
    \/ Encode \/ JoinQuery \/ Header \/ Body
    \/ AuthorizationHeader
    \/ Get \/ Post \/ SendTransportError \/ Response \/ SendBytes \/ SendBytesError
    \/ Return

\* every operation
Spec == Init /\ [][Next]_vars
\* the pure functions encode, join_query, header, body, on arbitrary inputs
SpecPure == Init /\ [][NextPure]_vars
\* authorization_header
SpecSign == Init /\ [][NextSign]_vars
\* everything that builds strings: the pure functions and authorization_header
SpecBuild == Init /\ [][NextBuild]_vars
\* get and post, with the transport's answers
SpecHttp == Init /\ [][NextHttp]_vars

(***************************************************************************)
(* Vocabulary of the properties.                                           *)
(***************************************************************************)
\* RFC 3986 unreserved: A-Z a-z 0-9 - . _ ~
Unreserved(b) ==
    \/ b \in 65..90
    \/ b \in 97..122
    \/ b \in 48..57
    \/ b \in {45, 46, 95, 126}

IsUpperHex(b) == b \in 48..57 \/ b \in 65..70
IsHex(b) == IsUpperHex(b) \/ b \in 97..102
HexValue(b) == IF b \in 48..57 THEN b - 48 ELSE IF b \in 65..70 THEN b - 55 ELSE b - 87

\* percent-decoding: %XY with two hexadecimal digits is the byte XY, every other
\* byte is itself
RECURSIVE percent_decode_from(_, _)
percent_decode_from(e, i) ==
    IF i > Len(e) THEN Empty
    ELSE IF e[i] = 37 /\ i + 2 <= Len(e) /\ IsHex(e[i + 1]) /\ IsHex(e[i + 2])
         THEN <<HexValue(e[i + 1]) * 16 + HexValue(e[i + 2])>> \o percent_decode_from(e, i + 3)
         ELSE <<e[i]>> \o percent_decode_from(e, i + 1)

percent_decode(e) == percent_decode_from(e, 1)

Range(f) == {f[i] : i \in DOMAIN f}

IsSorted(v) == \A i \in 1..(Len(v) - 1) : StrLeq(v[i], v[i + 1])

\* the pieces of s between the occurrences of byte sep
SplitOn(s, sep) ==
    LET cuts == {0} \cup {i \in 1..Len(s) : s[i] = sep} \cup {Len(s) + 1}
    IN  {SubSeq(s, a + 1, b - 1) :
            <<a, b>> \in {x \in cuts \X cuts :
                            /\ x[1] < x[2]
                            /\ ~\E c \in cuts : x[1] < c /\ c < x[2]}}

\* s is its pieces v, in order, with sep between them
RECURSIVE IsJoinOf(_, _, _)
IsJoinOf(s, v, sep) ==
    IF v = << >> THEN s = Empty
    ELSE IF Len(v) = 1 THEN s = v[1]
    ELSE /\ Len(s) >= Len(v[1]) + Len(sep)
         /\ SubSeq(s, 1, Len(v[1])) = v[1]
         /\ SubSeq(s, Len(v[1]) + 1, Len(v[1]) + Len(sep)) = sep
         /\ IsJoinOf(SubSeq(s, Len(v[1]) + Len(sep) + 1, Len(s)), Tail(v), sep)

IsGetHeaderOp == op \in {"authorization_header", "get", "post"}

(***************************************************************************)
(* C3: encode leaves the unreserved bytes A-Z a-z 0-9 - . _ ~ unchanged    *)
(* and replaces every other byte by %XX with two upper-case hexadecimal    *)
(* digits; it is the identity on strings of unreserved bytes, and          *)
(* percent-decoding its result gives the input back.                       *)
(***************************************************************************)
C3_EncodeContract ==
    op = "encode" =>
        LET s == arg.s
            e == ret.s
        IN  /\ \A i \in 1..Len(e) : Unreserved(e[i]) \/ e[i] = 37
            /\ \A i \in 1..Len(e) :
                 e[i] = 37 => /\ i + 2 <= Len(e)
                              /\ IsUpperHex(e[i + 1])
                              /\ IsUpperHex(e[i + 2])
            /\ Len(e) = Len(s) + 2 * Cardinality({i \in 1..Len(s) : ~Unreserved(s[i])})
            /\ percent_decode(e) = s
            /\ (\A i \in 1..Len(s) : Unreserved(s[i])) => e = s

\* encode("%=") = "%25%3D"
C3_Witness ==
    /\ op = "encode"
    /\ arg.s = <<37,61>>
    /\ ret.s = <<37,50,53,37,51,68>>

\* the pair of key k as the canonical string holds it
C2_EncodedPair(param, k) == encode(k) \o S_eq \o encode(param[k])

(***************************************************************************)
(* C2: join_query returns the pairs encode(key)=encode(value), joined by   *)
(* "&", in ascending byte-wise order of the whole pair string, whatever    *)
(* the map's iteration order; a pair holds one "=" and otherwise only      *)
(* unreserved bytes and %XX escapes.                                       *)
(***************************************************************************)
C2_JoinQuerySorted ==
    op = "join_query" =>
        LET param == arg.param
            pairs == ret.pairs
        IN  /\ Len(pairs) = Cardinality(DOMAIN param)
            /\ Range(pairs) = {C2_EncodedPair(param, k) : k \in DOMAIN param}
            /\ IsSorted(pairs)
            /\ IsJoinOf(ret.s, pairs, S_amp)
            /\ \A seed \in Seeds : join_query(param, seed) = ret.s
            /\ \A i \in 1..Len(pairs) :
                 /\ \A j \in 1..Len(pairs[i]) :
                      Unreserved(pairs[i][j]) \/ pairs[i][j] \in {61, 37}
                 /\ Cardinality({j \in 1..Len(pairs[i]) : pairs[i][j] = 61}) = 1

\* the keys "a" < "a-", iterated in this order, give the pairs "a-=y%20z" < "a=x":
\* the order of the pairs is neither the iteration's nor that of the raw keys
C2_Witness ==
    /\ op = "join_query"
    /\ DOMAIN arg.param = {<<97>>, <<97,45>>}
    /\ arg.seed = 0
    /\ iter(arg.param, arg.seed) = << <<97>>, <<97,45>> >>
    /\ ret.pairs = << <<97,45,61,121,37,50,48,122>>, <<97,61,120>> >>
    /\ ret.s = <<97,45,61,121,37,50,48,122,38,97,61,120>>

(***************************************************************************)
(* The entries of a header or body output: the parameter set rendered, the *)
(* sorted Vec of rendered entries and the string returned.                 *)
(***************************************************************************)
HeaderParam == IF IsGetHeaderOp THEN ret.h.param ELSE arg.param
HeaderPairs == IF IsGetHeaderOp THEN ret.h.header_pairs ELSE ret.pairs
HeaderString == IF IsGetHeaderOp THEN ret.h.header ELSE ret.s
BodyParam == IF IsGetHeaderOp THEN ret.h.param ELSE arg.param
BodyPairs == IF IsGetHeaderOp THEN ret.h.body_pairs ELSE ret.pairs
BodyString == IF IsGetHeaderOp THEN ret.h.body ELSE ret.s

HasHeaderOutput == op = "header" \/ IsGetHeaderOp
HasBodyOutput == op = "body" \/ IsGetHeaderOp

\* key k is rendered in the header (body) output
InHeader(k) == header_pair(k, HeaderParam[k]) \in Range(HeaderPairs)
InBody(k) == body_pair(k, BodyParam[k]) \in Range(BodyPairs)

\* the key of the i-th entry of the header (body) output
HeaderKeyAt(i) ==
    CHOOSE k \in DOMAIN HeaderParam : header_pair(k, HeaderParam[k]) = HeaderPairs[i]
BodyKeyAt(i) ==
    CHOOSE k \in DOMAIN BodyParam : body_pair(k, BodyParam[k]) = BodyPairs[i]

\* the keys of the entries of the header (body) output, in the output's order
HeaderKeys == [i \in 1..Len(HeaderPairs) |-> HeaderKeyAt(i)]
BodyKeys == [i \in 1..Len(BodyPairs) |-> BodyKeyAt(i)]

\* neither string is a prefix of the other
NoPrefix(k1, k2) == ~starts_with(k1, k2) /\ ~starts_with(k2, k1)

\* v is in strictly ascending order
Ascending(v) ==
    \A i, j \in 1..Len(v) : i < j => StrLess(v[i], v[j])

\* any two elements of v of which neither is a prefix of the other are in
\* ascending order
AscendingUnlessPrefix(v) ==
    \A i, j \in 1..Len(v) : (i < j /\ NoPrefix(v[i], v[j])) => StrLess(v[i], v[j])

(***************************************************************************)
(* C1: every key of the parameter set handed to header() and body() is     *)
(* rendered in exactly one of the two outputs: in the header if and only   *)
(* if it starts with "oauth_", in the body otherwise; none is in both and  *)
(* none is dropped.                                                        *)
(***************************************************************************)
C1_HeaderBodyPartition ==
    /\ HasHeaderOutput =>
         /\ \A k \in DOMAIN HeaderParam : InHeader(k) <=> starts_with(k, S_oauth_)
         /\ Len(HeaderPairs) =
              Cardinality({k \in DOMAIN HeaderParam : starts_with(k, S_oauth_)})
         /\ starts_with(HeaderString, S_OAuth_sp)
         /\ IsJoinOf(SubSeq(HeaderString, Len(S_OAuth_sp) + 1, Len(HeaderString)),
                     HeaderPairs, S_comma_sp)
    /\ HasBodyOutput =>
         /\ \A k \in DOMAIN BodyParam : InBody(k) <=> ~starts_with(k, S_oauth_)
         /\ Len(BodyPairs) =
              Cardinality({k \in DOMAIN BodyParam : ~starts_with(k, S_oauth_)})
         /\ IsJoinOf(BodyString, BodyPairs, S_amp)
    /\ IsGetHeaderOp =>
         /\ \A k \in DOMAIN ret.h.param : InHeader(k) # InBody(k)
         /\ Len(ret.h.header_pairs) + Len(ret.h.body_pairs)
              = Cardinality(DOMAIN ret.h.param)

\* get_header with the extra parameters "a" and "oauth_token-x": seven entries in
\* the header (with oauth_signature), one in the body
C1_Witness ==
    /\ op = "authorization_header"
    /\ arg.other_param.some
    /\ DOMAIN arg.other_param.val
         = {<<97>>, <<111,97,117,116,104,95,116,111,107,101,110,45,120>>}
    /\ Len(ret.h.header_pairs) = 7
    /\ ret.h.body_pairs = << <<97,61,120>> >>
    /\ InHeader(K_signature)

(***************************************************************************)
(* C5, as stated: the entries of the header output, and those of the body  *)
(* output, are in ascending order of their key, also when one key is a     *)
(* proper prefix of another.                                               *)
(***************************************************************************)
C5_EntriesSortedByKey ==
    /\ HasHeaderOutput => Ascending(HeaderKeys)
    /\ HasBodyOutput => Ascending(BodyKeys)

(***************************************************************************)
(* C4: the body string consists of percent-encoded key=value pairs: the    *)
(* key and the value of every parameter that is not oauth_* are both       *)
(* percent-encoded, so that the body holds, beside the separators "=" and  *)
(* "&" and the "%" of an escape, unreserved bytes only.                    *)
(***************************************************************************)
C4_BodyPercentEncoded ==
    HasBodyOutput =>
        /\ \A k \in DOMAIN BodyParam :
             ~starts_with(k, S_oauth_) =>
                (encode(k) \o S_eq \o encode(BodyParam[k])) \in Range(BodyPairs)
        /\ \A i \in 1..Len(BodyString) :
             Unreserved(BodyString[i]) \/ BodyString[i] \in {61, 38, 37}

(***************************************************************************)
(* C5, amended: the entries of the header output, and those of the body    *)
(* output, are in ascending byte-wise order of the rendered entry          *)
(* (key="value", key=value); two entries are in the order of their keys    *)
(* whenever neither key is a prefix of the other.                          *)
(***************************************************************************)
C5_EntriesSortedByEntry ==
    /\ HasHeaderOutput =>
         /\ Ascending(HeaderPairs)
         /\ AscendingUnlessPrefix(HeaderKeys)
    /\ HasBodyOutput =>
         /\ Ascending(BodyPairs)
         /\ AscendingUnlessPrefix(BodyKeys)

\* body of {"a": "x", "a-": "y z"}, iterated "a" first: the entry of "a-" comes
\* first, "a-=y%20z" < "a=x", though "a" < "a-"
C5_Witness ==
    /\ op = "body"
    /\ DOMAIN arg.param = {<<97>>, <<97,45>>}
    /\ arg.seed = 0
    /\ BodyKeyAt(1) = <<97,45>>
    /\ BodyKeyAt(2) = <<97>>
    /\ ret.s = <<97,45,61,121,37,50,48,122,38,97,61,120>>

\* a second run on the arguments, nonce and timestamp of the state's, with both
\* maps iterated in ascending order
C7_ReferenceRun ==
    get_header(arg.method, arg.uri, arg.consumer, arg.token, arg.other_param,
               arg.timestamp, arg.nonce, 0, 0)

(***************************************************************************)
(* C7: with the same method, URI, consumer, token, extra parameters, nonce *)
(* and timestamp, any two runs of authorization_header return the same     *)
(* header and body strings, whatever order the hashers give the two maps:  *)
(* the run of the state agrees with the run under the hasher seeds 0, 0.   *)
(***************************************************************************)
C7_Deterministic ==
    op = "authorization_header" =>
        /\ ret.h.header = C7_ReferenceRun.header
        /\ ret.h.body = C7_ReferenceRun.body

\* a run whose maps were both iterated in another order than the reference run's
C7_Witness ==
    /\ op = "authorization_header"
    /\ arg.seed = 1
    /\ arg.ps_seed = 1
    /\ arg.other_param.some
    /\ Cardinality(DOMAIN arg.other_param.val) = 2
    /\ iter(arg.other_param.val, 1) # iter(arg.other_param.val, 0)
    /\ iter(ret.h.param, 1) # iter(ret.h.param, 0)
    /\ Len(ret.h.body_pairs) = 2
    /\ ret.h.header = C7_ReferenceRun.header
    /\ ret.h.body = C7_ReferenceRun.body

(***************************************************************************)
(* C6: a response whose status is not 200 (201 and 204 included) makes     *)
(* send, and so get and post, return an HttpStatusError with exactly that  *)
(* status and no bytes; bytes are returned only under status 200; a        *)
(* transport failure before a status is obtained is returned as the        *)
(* transport's error, never as an HttpStatusError.                         *)
(***************************************************************************)
C6_StatusErrors ==
    /\ (pc = "returned" /\ op \in {"get", "post"}) =>
         /\ ret.result.kind \in {"Ok", "HttpStatusError", "TransportError"}
         /\ (rsp.kind = "response" /\ rsp.status # 200) =>
               ret.result = [kind |-> "HttpStatusError", code |-> rsp.status, bytes |-> Empty]
         /\ ret.result.kind = "HttpStatusError" =>
               /\ rsp.kind = "response"
               /\ rsp.status # 200
               /\ ret.result.code = rsp.status
         /\ ret.result.kind = "Ok" =>
               /\ rsp.kind = "response"
               /\ rsp.status = 200
               /\ ret.result.bytes = rsp.payload
         /\ ret.result.kind # "Ok" => ret.result.bytes = Empty
         /\ rsp.kind = "error" => ret.result.kind = "TransportError"
    /\ pc = "awaiting_bytes" => rsp.status = 200

\* 201 Created with a body: HttpStatusError(201), the body is not returned
C6_Witness ==
    /\ pc = "returned"
    /\ op = "post"
    /\ rsp.kind = "response"
    /\ rsp.status = 201
    /\ rsp.payload # Empty
    /\ ret.result = [kind |-> "HttpStatusError", code |-> 201, bytes |-> Empty]

(***************************************************************************)
(* C8: get signs with "GET" and requests uri ++ "?" ++ body when the body  *)
(* string is not empty, the unchanged uri when it is, with no request      *)
(* body; post signs with "POST" and requests the unchanged uri with the    *)
(* body string as request body and Content-Type                            *)
(* application/x-www-form-urlencoded; both send the header string as the   *)
(* Authorization header.                                                   *)
(***************************************************************************)
C8_Requests ==
    /\ op = "get" =>
         /\ req.method = S_GET
         /\ starts_with(ret.h.base, S_GET \o S_amp)
         /\ ret.h.body = Empty => req.uri = arg.uri
         /\ ret.h.body # Empty => req.uri = arg.uri \o S_qmark \o ret.h.body
         /\ ~req.body.some
         /\ req.authorization = Some(ret.h.header)
    /\ op = "post" =>
         /\ req.method = S_POST
         /\ starts_with(ret.h.base, S_POST \o S_amp)
         /\ req.uri = arg.uri
         /\ req.body = Some(ret.h.body)
         /\ req.content_type = Some(S_form_urlencoded)
         /\ req.authorization = Some(ret.h.header)

\* get of "http://h/p" with the extra parameter a=x requests "http://h/p?a=x"
C8_Witness ==
    /\ op = "get"
    /\ ret.h.body = <<97,61,120>>
    /\ req.uri = <<104,116,116,112,58,47,47,104,47,112,63,97,61,120>>
    /\ ~req.body.some
    /\ req.authorization.some

(***************************************************************************)
(* C9, C10: what the caller supplied.                                      *)
(***************************************************************************)
CallerSupplies(k) == arg.other_param.some /\ k \in DOMAIN arg.other_param.val

\* "s%26c&": encode(consumer_secret), "&", nothing
KeyWithoutToken == encode(arg.consumer.secret) \o S_amp
\* "s%26c&t%20s": encode(consumer_secret), "&", encode(token_secret)
KeyWithToken == encode(arg.consumer.secret) \o S_amp \o encode(arg.token.val.secret)

\* the header has an entry oauth_token="..."
HeaderHasTokenEntry ==
    \E i \in 1..Len(ret.h.header_pairs) :
        starts_with(ret.h.header_pairs[i], K_token \o S_eq \o S_quote)

\* oauth_token is value v in the parameter set and in the header
TokenEntryIs(v) ==
    /\ K_token \in DOMAIN ret.h.param
    /\ ret.h.param[K_token] = v
    /\ header_pair(K_token, v) \in Range(ret.h.header_pairs)

C9_WithoutToken ==
    (~arg.token.some /\ ~CallerSupplies(K_token)) =>
        /\ K_token \notin DOMAIN ret.h.param
        /\ ~HeaderHasTokenEntry
        /\ ret.h.key = KeyWithoutToken

(***************************************************************************)
(* C9, as stated: without a token (and without a caller-supplied           *)
(* oauth_token) the header has no oauth_token entry and the signing key is *)
(* encode(consumer_secret) "&" and nothing; with a token, oauth_token is   *)
(* the token's key and the signing key is encode(consumer_secret) "&"      *)
(* encode(token_secret).                                                   *)
(***************************************************************************)
C9_TokenPresence ==
    op = "authorization_header" =>
        /\ C9_WithoutToken
        /\ arg.token.some =>
             /\ TokenEntryIs(arg.token.val.key)
             /\ ret.h.key = KeyWithToken

(***************************************************************************)
(* C9, amended: as stated, but with a token oauth_token is the token's key *)
(* only if the caller supplies no oauth_token parameter; a caller-supplied *)
(* oauth_token replaces the token's key (the last insert wins), while the  *)
(* signing key is still made of the token's secret.                        *)
(***************************************************************************)
C9_TokenPresenceAmended ==
    op = "authorization_header" =>
        /\ C9_WithoutToken
        /\ arg.token.some =>
             /\ ret.h.key = KeyWithToken
             /\ ~CallerSupplies(K_token) => TokenEntryIs(arg.token.val.key)
             /\ CallerSupplies(K_token) => TokenEntryIs(arg.other_param.val[K_token])

\* token ("tk", "t s") and a caller-supplied oauth_token=x: the header says
\* oauth_token="x", the key is "s%26c&t%20s"
C9_Witness ==
    /\ op = "authorization_header"
    /\ arg.token.some
    /\ CallerSupplies(K_token)
    /\ TokenEntryIs(<<120>>)
    /\ arg.token.val.key # <<120>>
    /\ ret.h.key = <<115,37,50,54,99,38,116,37,50,48,115>>

(***************************************************************************)
(* C10: what is signed and what is sent.                                   *)
(***************************************************************************)
\* the (key, value) parameters rendered in the header and body outputs
Emitted == {<<k, ret.h.param[k]>> : k \in {x \in DOMAIN ret.h.param : InHeader(x) \/ InBody(x)}}

EmittedButSignature == {e \in Emitted : e[1] # K_signature}

\* the encoded pairs of the canonical string, which is the third part of the base
\* string
SignedPairs == SplitOn(ret.h.query, 38)

BaseHoldsQuery == ret.h.base = encode(arg.method) \o S_amp \o encode(arg.uri) \o S_amp \o encode(ret.h.query)

EncodedPairs(entries) == {encode(e[1]) \o S_eq \o encode(e[2]) : e \in entries}

(***************************************************************************)
(* C10, as stated: the parameters canonicalized into the signature base    *)
(* string are the parameters emitted in the header and body outputs        *)
(* without the oauth_signature entry, for every caller-supplied parameter  *)
(* set, oauth_signature included.                                          *)
(***************************************************************************)
C10_SignedIsSent ==
    op = "authorization_header" =>
        /\ BaseHoldsQuery
        /\ SignedPairs = EncodedPairs(EmittedButSignature)
=============================================================================
